---------------------------- MODULE Spec2Model ----------------------------
(***************************************************************************)
(* The HTTP communicator of the velociraptor client (package http_comms):  *)
(* the intake goroutine, the poll loop of Run, sendMessageList with its    *)
(* endpoint rotation, sendToURL with the server.pem handshake, and         *)
(* MaybeEnrol.  Time is counted in whole seconds since construction.       *)
(***************************************************************************)
EXTENDS Integers, Sequences, FiniteSets, TLC

(***************************************************************************)
(* Bounds of the model.                                                    *)
(***************************************************************************)
\* number of configured urls (len(self.urls))
NumUrls == 2
\* the clock stops advancing here
MaxTime == 8
\* longest duration of one sendToURL call, in seconds
MaxLatency == 1
\* messages the executor hands to the intake goroutine
MaxMsgs == 2
\* jobs the server hands out over the whole run
MaxJobs == 2

(***************************************************************************)
(* Program constants.                                                      *)
(***************************************************************************)
\* the zero value of time.Time, long before the process started
ZeroTime == -2000000000
\* time.Duration(1) * time.Second
DefaultMinPoll == 1
\* time.Duration(10) * time.Second
DefaultMaxPoll == 10
\* 10 * time.Minute
EnrolCooldown == 600

\* <<minPoll, maxPoll>>: the constructor's values, and the 1s/4s pair of the
\* idle-ping scenario.
PollConfigs == {<<DefaultMinPoll, DefaultMaxPoll>>, <<1, 4>>}

VARIABLES
    minPoll, maxPoll,         \* fields minPoll, maxPoll
    current_url_idx,          \* index into urls, 0-based
    server_name,              \* <<>> is "", <<i>> the name in url i's server.pem
    mutex,                    \* "free" or "sched" (held by the poll loop)
    pending_message_list,     \* the Job slice of the live message list
    last_ping_time,
    current_poll_duration,
    last_enrollment_time,
    now,                      \* time.Now()
    cancelled,                \* ctx.Done() is closed
    pc,                       \* position of the poll loop
    site,                     \* which call of sendMessageList is running
    up,                       \* urls whose exchanges always succeed
    known,                    \* the server holds this client's public key
    \* ---- history of the run
    done_seen,                \* a select of the poll loop received from ctx.Done()
    drained,                  \* this turn of the loop sent a non-empty list
    enqueued,                 \* number of messages appended by intake
    handed,                   \* the non-empty batches passed to sendMessageList
    processed,                \* jobs passed to executor.ProcessRequest
    enrol_sent,               \* enrolment requests passed to SendToServer
    gotWork,                  \* a reply with jobs arrived since the last evaluation
    rotations,                \* cursor advances of the running sendMessageList
    start_idx,                \* current_url_idx when it was entered
    posts,                    \* its failed attempts that reached client.Post
    lastOutcome,              \* how the attempt being waited on failed
    csr_result                \* what GetCSR and Marshal did in the last MaybeEnrol

vars == <<minPoll, maxPoll, current_url_idx, server_name, mutex,
          pending_message_list, last_ping_time, current_poll_duration,
          last_enrollment_time, now, cancelled, pc, site, up, known,
          done_seen, drained, enqueued, handed, processed, enrol_sent,
          gotWork, rotations, start_idx, posts, lastOutcome, csr_result>>

\* the configuration and the environment
envVars == <<minPoll, maxPoll, up, known>>
\* what only sendToURL and MaybeEnrol write
exchVars == <<server_name, current_poll_duration, last_enrollment_time,
              processed, enrol_sent, csr_result>>

Urls == 0 .. (NumUrls - 1)

EmptyName == <<>>
\* the name AddCertificate returns for the certificate served by url i
CertName(i) == <<i>>

Min(a, b) == IF a < b THEN a ELSE b

\* time.Time.After
After(t, u) == t > u

(***************************************************************************)
(* Pieces of Run and sendMessageList.                                      *)
(***************************************************************************)
\* lines 96-97 with "not before" in place of After
PingDueAtInterval(t, last, p) == t >= last + p

\* lines 96-97: an unsolicited poll is due
PingDue(t, last, p) == After(t, last + p)

\* the doubling of line 100 without the cap of lines 101-103
DoublePollNoCap(p, mx) == p * 2

\* line 100 adding a second in place of doubling
DoublePollByOne(p, mx) == IF p + 1 > mx THEN mx ELSE p + 1

\* lines 100-103: double, capped at maxPoll
DoublePoll(p, mx) == IF p * 2 > mx THEN mx ELSE p * 2

\* line 144 without the modulo
NextUrlIdxNoWrap(i, n) == i + 1

\* line 144 left out
NextUrlIdxStay(i, n) == i

\* line 144
NextUrlIdx(i, n) == (i + 1) % n

\* line 143 left out
NameAfterWaitKept(name) == name

\* line 143
NameAfterWait(name) == EmptyName

\* lines 238-239 with "not before" in place of After
EnrolDueAtCooldown(t, last) == t >= last + EnrolCooldown

\* lines 238-239
EnrolDue(t, last) == After(t, last + EnrolCooldown)

\* the intake goroutine appending without the lock
CanLockAlways == TRUE

\* mutex.Lock() succeeds
CanLock == mutex = "free"

(***************************************************************************)
(* Outcomes of one sendToURL call.                                         *)
(***************************************************************************)
HandshakeFailures == {"get_err", "pem_read_err", "cert_err"}
ExchangeFailures == {"encrypt_err", "post_err", "status_err", "body_err",
                     "decrypt_err"}
Failures == HandshakeFailures \cup ExchangeFailures
\* the outcomes for which sendToURL returns nil: line 232 and line 201
Successes == {"ok", "enrol"}

\* lines 199-202 returning an error in place of nil
ReturnsNilOnly200(o) == o = "ok"

\* line 130: err == nil
ReturnsNil(o) == o \in Successes
\* a server that holds the client's key answers 200, one that does not, 406
Answers == IF known THEN {"ok"} ELSE {"enrol"}
CsrOutcomes == {"ok", "csr_err", "marshal_err"}

\* outcomes sendToURL can have at url i with the given server_name
Outcomes(i, name) ==
    Answers \cup
    (IF i \in up THEN {}
     ELSE ExchangeFailures \cup (IF name = EmptyName THEN HandshakeFailures ELSE {}))

InitProgram ==
    /\ \E c \in PollConfigs :
          /\ minPoll = c[1]
          /\ maxPoll = c[2]
          /\ current_poll_duration = c[1]
    /\ current_url_idx = 0
    /\ server_name = EmptyName
    /\ mutex = "free"
    /\ pending_message_list = <<>>
    /\ last_ping_time = ZeroTime
    /\ last_enrollment_time = ZeroTime
    /\ now = 0
    /\ cancelled = FALSE
    /\ done_seen = FALSE
    /\ drained = FALSE
    /\ pc = "top"
    /\ site = "none"
    /\ enqueued = 0
    /\ handed = <<>>
    /\ processed = <<>>
    /\ enrol_sent = 0
    /\ gotWork = FALSE
    /\ rotations = 0
    /\ start_idx = 0
    /\ posts = 0
    /\ lastOutcome = "none"
    /\ csr_result = "none"

\* any exchange may fail
Init == InitProgram /\ up = {} /\ known \in BOOLEAN

\* one url never fails: the first (no failover is needed) or the last (the
\* longest failover)
InitUp == InitProgram /\ known \in BOOLEAN /\ up \in {{0}, {NumUrls - 1}}

(***************************************************************************)
(* The intake goroutine, lines 54-66.                                      *)
(***************************************************************************)
Enqueue ==
    /\ enqueued < MaxMsgs
    /\ CanLock
    /\ enqueued' = enqueued + 1
    /\ pending_message_list' = Append(pending_message_list, enqueued + 1)
    /\ UNCHANGED <<envVars, done_seen, drained, exchVars, current_url_idx,
                   mutex, last_ping_time, now, cancelled, pc, site, handed,
                   gotWork, rotations, start_idx, posts, lastOutcome>>

(***************************************************************************)
(* Entry of sendMessageList, line 123, with the batch it is given.         *)
(***************************************************************************)
EnterSend(s) ==
    /\ last_ping_time' = now
    /\ mutex' = "sched"
    /\ pc' = "send"
    /\ site' = s
    /\ rotations' = 0
    /\ start_idx' = current_url_idx
    /\ posts' = 0
    /\ handed' = IF pending_message_list = <<>> THEN handed
                 ELSE Append(handed, pending_message_list)

\* the return to Run without the Unlock of line 93 or 107
ReturnToRunLocked ==
    /\ pending_message_list' = <<>>
    /\ mutex' = "sched"
    /\ pc' = IF site = "drain" THEN "check" ELSE "sleep"
    /\ site' = "none"
    /\ rotations' = 0
    /\ start_idx' = current_url_idx
    /\ posts' = 0
    /\ lastOutcome' = "none"

\* sendMessageList returns to Run: lines 91-93 or 106-107
ReturnToRun ==
    /\ pending_message_list' = <<>>
    /\ mutex' = "free"
    /\ pc' = IF site = "drain" THEN "check" ELSE "sleep"
    /\ site' = "none"
    /\ rotations' = 0
    /\ start_idx' = current_url_idx
    /\ posts' = 0
    /\ lastOutcome' = "none"

(***************************************************************************)
(* Run, lines 81-93: lock, send a non-empty list, unlock.                  *)
(***************************************************************************)
Drain ==
    /\ pc = "top"
    /\ CanLock
    /\ drained' = (Len(pending_message_list) > 0)
    /\ IF Len(pending_message_list) > 0
       THEN EnterSend("drain")
       ELSE /\ pc' = "check"
            /\ UNCHANGED <<last_ping_time, mutex, site, rotations, start_idx,
                           posts, handed>>
    /\ UNCHANGED <<envVars, done_seen, exchVars, current_url_idx,
                   pending_message_list, now, cancelled, enqueued, gotWork,
                   lastOutcome>>

(***************************************************************************)
(* Run, lines 96-108: the unsolicited poll.                                *)
(***************************************************************************)
Check ==
    /\ pc = "check"
    /\ gotWork' = FALSE
    /\ drained' = FALSE
    /\ IF PingDue(now, last_ping_time, current_poll_duration)
       THEN /\ CanLock
            /\ current_poll_duration' = DoublePoll(current_poll_duration, maxPoll)
            /\ EnterSend("ping")
       ELSE /\ pc' = "sleep"
            /\ UNCHANGED <<current_poll_duration, last_ping_time, mutex, site,
                           rotations, start_idx, posts, handed>>
    /\ UNCHANGED <<envVars, done_seen, server_name, last_enrollment_time,
                   processed, enrol_sent, csr_result, current_url_idx,
                   pending_message_list, now, cancelled, enqueued,
                   lastOutcome>>

(***************************************************************************)
(* Run, lines 111-118: sleep for minPoll or until ctx is done.             *)
(***************************************************************************)
SleepTimeout ==
    /\ pc = "sleep"
    /\ ~cancelled
    /\ now + minPoll <= MaxTime
    /\ now' = now + minPoll
    /\ pc' = "top"
    /\ UNCHANGED <<envVars, done_seen, drained, exchVars, current_url_idx,
                   mutex, pending_message_list, last_ping_time, cancelled,
                   site, enqueued, handed, gotWork, rotations, start_idx,
                   posts, lastOutcome>>

SleepCancelled ==
    /\ pc = "sleep"
    /\ cancelled
    /\ done_seen' = TRUE
    /\ pc' = "stopped"
    /\ UNCHANGED <<envVars, drained, exchVars, current_url_idx, mutex,
                   pending_message_list, last_ping_time, now, cancelled, site,
                   enqueued, handed, gotWork, rotations, start_idx, posts,
                   lastOutcome>>

(***************************************************************************)
(* MaybeEnrol, lines 235-270, called at time t; csr is what GetCSR and     *)
(* proto.Marshal do.                                                       *)
(***************************************************************************)
\* MaybeEnrol with line 264 moved before GetCSR: every attempt that is due
\* records its time, whether or not a request is dispatched
MaybeEnrolStampsFirst(t, csr) ==
    IF EnrolDue(t, last_enrollment_time)
    THEN /\ csr_result' = csr
         /\ last_enrollment_time' = t
         /\ enrol_sent' = IF csr = "ok" THEN enrol_sent + 1 ELSE enrol_sent
    ELSE /\ csr_result' = "skipped"
         /\ UNCHANGED <<last_enrollment_time, enrol_sent>>

MaybeEnrol(t, csr) ==
    IF EnrolDue(t, last_enrollment_time)
    THEN /\ csr_result' = csr
         /\ IF csr = "ok"
            THEN /\ last_enrollment_time' = t
                 /\ enrol_sent' = enrol_sent + 1
            ELSE UNCHANGED <<last_enrollment_time, enrol_sent>>
    ELSE /\ csr_result' = "skipped"
         /\ UNCHANGED <<last_enrollment_time, enrol_sent>>

(***************************************************************************)
(* sendToURL, lines 152-233.                                               *)
(***************************************************************************)
\* lines 181-185 are reached: the handshake, if any, did not return an error
ReachesEncrypt(o) == o \notin HandshakeFailures

\* lines 188-189 are reached: client.Post is called
ReachesPost(o) == o \notin HandshakeFailures \cup {"encrypt_err"}

\* line 172 installing the certificate of the first url whatever the url
NameAfterHandshakeFirstUrl(name, i) == IF name = EmptyName THEN CertName(0) ELSE name

\* lines 156-178: the handshake runs only when server_name is empty
NameAfterHandshake(name, i) == IF name = EmptyName THEN CertName(i) ELSE name

\* lines 222-226 without the reset
PollAfterReplyKept(p, n) == p

\* lines 222-226
PollAfterReply(p, n) == IF n > 0 THEN minPoll ELSE p

\* lines 227-229 ranging over the reply from its last job to its first
DispatchBackwards(done, reply) ==
    done \o [k \in 1 .. Len(reply) |-> reply[Len(reply) + 1 - k]]

\* lines 227-229: the jobs of the reply, in the order of the reply
Dispatch(done, reply) == done \o reply

\* the reply of the server: its next n jobs
Reply(n) == [k \in 1 .. n |-> Len(processed) + k]

SendToURL(o, d, n, csr) ==
    /\ now' = now + d
    /\ server_name' = IF o \in HandshakeFailures THEN server_name
                      ELSE NameAfterHandshake(server_name, current_url_idx)
    /\ IF o = "enrol"
       THEN MaybeEnrol(now + d, csr)
       ELSE UNCHANGED <<last_enrollment_time, enrol_sent, csr_result>>
    /\ IF o = "ok"
       THEN /\ current_poll_duration' = PollAfterReply(current_poll_duration, n)
            /\ processed' = Dispatch(processed, Reply(n))
            /\ gotWork' = (gotWork \/ n > 0)
       ELSE UNCHANGED <<current_poll_duration, processed, gotWork>>

(***************************************************************************)
(* One turn of the loop of sendMessageList, lines 125-135.                 *)
(***************************************************************************)
Attempt(o, d, n, csr) ==
    /\ pc = "send"
    /\ o \in Outcomes(current_url_idx, server_name)
    /\ now + d <= MaxTime
    /\ (o # "ok") => n = 0
    /\ (o # "enrol" \/ ~EnrolDue(now + d, last_enrollment_time)) => csr = "ok"
    /\ SendToURL(o, d, n, csr)
    /\ IF ReturnsNil(o)
       THEN ReturnToRun
       ELSE /\ pc' = "wait"
            /\ lastOutcome' = o
            /\ posts' = IF ReachesPost(o) THEN posts + 1 ELSE posts
            /\ UNCHANGED <<pending_message_list, mutex, site, rotations,
                           start_idx>>
    /\ UNCHANGED <<envVars, done_seen, drained, current_url_idx,
                   last_ping_time, cancelled, enqueued, handed>>

(***************************************************************************)
(* The select of sendMessageList, lines 136-147.                           *)
(***************************************************************************)
WaitTimeout ==
    /\ pc = "wait"
    /\ ~cancelled
    /\ now + maxPoll <= MaxTime
    /\ now' = now + maxPoll
    /\ server_name' = NameAfterWait(server_name)
    /\ current_url_idx' = NextUrlIdx(current_url_idx, NumUrls)
    /\ rotations' = rotations + 1
    /\ pc' = "send"
    /\ lastOutcome' = "none"
    /\ UNCHANGED <<envVars, done_seen, drained, mutex, pending_message_list,
                   last_ping_time, current_poll_duration,
                   last_enrollment_time, cancelled, site, enqueued, handed,
                   processed, enrol_sent, csr_result, gotWork, start_idx,
                   posts>>

WaitCancelled ==
    /\ pc = "wait"
    /\ cancelled
    /\ done_seen' = TRUE
    /\ ReturnToRun
    /\ UNCHANGED <<envVars, drained, exchVars, current_url_idx,
                   last_ping_time, now, cancelled, enqueued, handed, gotWork>>

(***************************************************************************)
(* The context is cancelled.  A cancellation that arrives while the poll   *)
(* loop is inside a timer wait arrives d seconds into that wait.           *)
(***************************************************************************)
Cancel(d) ==
    /\ ~cancelled
    /\ d \in (IF pc = "wait" THEN 0 .. (maxPoll - 1)
              ELSE IF pc = "sleep" THEN 0 .. (minPoll - 1)
              ELSE {0})
    /\ now + d <= MaxTime
    /\ cancelled' = TRUE
    /\ now' = now + d
    /\ UNCHANGED <<envVars, done_seen, drained, exchVars, current_url_idx,
                   mutex, pending_message_list, last_ping_time, pc, site,
                   enqueued, handed, gotWork, rotations, start_idx, posts,
                   lastOutcome>>

Next ==
    \/ Enqueue
    \/ Drain
    \/ Check
    \/ SleepTimeout
    \/ SleepCancelled
    \/ \E o \in Failures \cup Successes, d \in 0 .. MaxLatency,
          n \in 0 .. MaxJobs, csr \in CsrOutcomes :
          /\ Len(processed) + n <= MaxJobs
          /\ Attempt(o, d, n, csr)
    \/ WaitTimeout
    \/ WaitCancelled
    \/ \E d \in 0 .. MaxTime : Cancel(d)

Spec == Init /\ [][Next]_vars

\* Every HTTP call returns (the transport's timeouts) and every timer fires.
Fairness ==
    /\ WF_vars(\E o \in Failures \cup Successes, d \in 0 .. MaxLatency,
                  n \in 0 .. MaxJobs, csr \in CsrOutcomes :
                  Len(processed) + n <= MaxJobs /\ Attempt(o, d, n, csr))
    /\ WF_vars(WaitTimeout)
    /\ WF_vars(WaitCancelled)

SpecUp == InitUp /\ [][Next]_vars /\ Fairness

\* The goroutine of Run is scheduled: it does not stay for ever before a
\* statement it can execute.
RunFairness ==
    /\ WF_vars(Drain)
    /\ WF_vars(Check)
    /\ WF_vars(SleepCancelled)

SpecStop == Init /\ [][Next]_vars /\ Fairness /\ RunFairness

(***************************************************************************)
(* MaybeEnrol on its own: calls at times that 299, 300 or 301 seconds      *)
(* separate, starting when the process starts.                             *)
(***************************************************************************)
MaxEnrolTime == 1210
EnrolGaps == {299, 300, 301}

InitEnrol == InitProgram /\ up = {} /\ known = FALSE

EnrolElapse(d) ==
    /\ now + d <= MaxEnrolTime
    /\ now' = now + d
    /\ UNCHANGED <<envVars, done_seen, drained, exchVars, current_url_idx,
                   mutex, pending_message_list, last_ping_time, cancelled, pc,
                   site, enqueued, handed, gotWork, rotations, start_idx,
                   posts, lastOutcome>>

EnrolCall(csr) ==
    /\ MaybeEnrol(now, csr)
    /\ UNCHANGED <<envVars, done_seen, drained, server_name,
                   current_poll_duration, processed, current_url_idx, mutex,
                   pending_message_list, last_ping_time, now, cancelled, pc,
                   site, enqueued, handed, gotWork, rotations, start_idx,
                   posts, lastOutcome>>

NextEnrol ==
    \/ \E d \in EnrolGaps : EnrolElapse(d)
    \/ \E csr \in CsrOutcomes : EnrolCall(csr)

SpecEnrol == InitEnrol /\ [][NextEnrol]_vars

(***************************************************************************)
(* Properties.                                                             *)
(***************************************************************************)
InSend == pc \in {"send", "wait"}

\* C1: the poll interval is minPoll right after construction and lies in
\* [minPoll, maxPoll] in every reachable state.
C1_PollInRange ==
    /\ current_poll_duration = minPoll
    /\ [](minPoll <= current_poll_duration /\ current_poll_duration <= maxPoll)

\* An idle run reaches maxPoll with its second ping (at 3 s at the earliest);
\* the ping started at 8 s is its third, the one whose doubling is capped.
C1_Witness ==
    /\ pc = "send" /\ site = "ping"
    /\ enqueued = 0 /\ processed = <<>>
    /\ now = 8 /\ maxPoll = 4
    /\ current_poll_duration = maxPoll

\* the messages 1 .. n in the order intake appended them
Iota(n) == [k \in 1 .. n |-> k]

RECURSIVE Flatten(_)
Flatten(batches) ==
    IF batches = <<>> THEN <<>>
    ELSE Flatten(SubSeq(batches, 1, Len(batches) - 1)) \o batches[Len(batches)]

\* C2: the batches passed to sendMessageList, followed by the live list, are
\* exactly the messages intake appended, each once and in append order; while
\* a batch is being sent it holds every message appended so far, so the swap
\* to an empty list discards only messages of that batch.
C2_BatchesPartitionIntake ==
    IF InSend
    THEN /\ Flatten(handed) = Iota(enqueued)
         /\ pending_message_list # <<>> =>
                pending_message_list = handed[Len(handed)]
    ELSE Flatten(handed) \o pending_message_list = Iota(enqueued)

\* a first batch was sent and swapped out, a message appended during the
\* sleep after it went out in a second batch
C2_Witness ==
    /\ handed = <<(<<1>>), (<<2>>)>>
    /\ ~InSend
    /\ pending_message_list = <<>>

\* C3: from a 200 reply that carries jobs until the poll loop next evaluates
\* the poll interval (line 96), the interval is minPoll.
C3_WorkResetsPoll == gotWork => current_poll_duration = minPoll

\* the reply with jobs answered an unsolicited ping, which had doubled the
\* interval before sending
C3_Witness ==
    /\ gotWork
    /\ pc = "sleep"
    /\ current_poll_duration = minPoll

\* failed attempts of the running sendMessageList
FailedAttempts == rotations + (IF pc = "wait" THEN 1 ELSE 0)

\* the clock of the model leaves room for k more waits of sendMessageList
RoomFor(k) == now + k * (maxPoll + MaxLatency) <= MaxTime

\* C4: sendMessageList returns only from a successful sendToURL or from a
\* wait that saw the cancellation; when one url never fails it makes at most
\* NumUrls - 1 failed attempts, and it returns.
C4_NeverGivesUp ==
    /\ [][(InSend /\ ~InSend') => (pc = "send" \/ (pc = "wait" /\ cancelled))]_vars
    /\ [](InSend => FailedAttempts <= NumUrls - 1)
    /\ (InSend /\ RoomFor(NumUrls - 1 - rotations)) ~> ~InSend

\* every other url has failed; the attempt at the url that never fails is next
C4_Witness ==
    /\ pc = "send"
    /\ NumUrls > 1
    /\ rotations = NumUrls - 1
    /\ current_url_idx \in up
    /\ ~cancelled

\* C5 as stated: server_name is empty right after construction, right after
\* every failed attempt and right after every advance of the cursor.
C5_Original ==
    /\ server_name = EmptyName
    /\ [][/\ (pc = "send" /\ pc' = "wait") => server_name' = EmptyName
          /\ (rotations' = rotations + 1) => server_name' = EmptyName]_vars

\* C5 amended: server_name is empty right after construction and right after
\* every advance of the cursor; a failed attempt leaves it empty only when the
\* handshake failed, otherwise it holds the name of the url's certificate
\* through the wait, and a wait ended by cancellation does not clear it.
C5_ClearedOnRotation ==
    /\ server_name = EmptyName
    /\ [][/\ (rotations' = rotations + 1) => server_name' = EmptyName
          /\ (pc = "send" /\ pc' = "wait") =>
                server_name' = IF lastOutcome' \in HandshakeFailures
                               THEN EmptyName
                               ELSE CertName(current_url_idx)
          /\ (pc = "wait" /\ ~InSend') => server_name' = server_name]_vars

\* the cursor advanced after a failed attempt at the first url
C5_Witness ==
    /\ pc = "send"
    /\ rotations = 1
    /\ server_name = EmptyName
    /\ current_url_idx = 1

\* C6: a non-empty server_name is the name of the certificate of the url the
\* cursor selects, so sendToURL encrypts for the url it posts to.
C6_NameOfCurrentUrl ==
    server_name # EmptyName => server_name = CertName(current_url_idx)

\* a handshake with the second url after a rotation
C6_Witness ==
    /\ current_url_idx = 1
    /\ server_name = CertName(1)

\* C7: the cursor is a valid index, it is the start index plus the number of
\* completed waits modulo NumUrls, and NumUrls failures bring it back.
C7_CursorCycle ==
    /\ current_url_idx \in Urls
    /\ current_url_idx = (start_idx + rotations) % NumUrls
    /\ rotations = NumUrls => current_url_idx = start_idx

C7_Witness ==
    /\ pc = "send"
    /\ rotations = NumUrls
    /\ current_url_idx = start_idx

\* a call of MaybeEnrol that went as far as GetCSR and Marshal allowed
EnrolCallStep == csr_result' \in {"ok", "skipped"} /\ now' = now

\* C8 as stated: after a call that dispatched a request, a call less than 10
\* minutes later dispatches nothing and a call 10 minutes later or more
\* dispatches one.
C8_Original ==
    [][(EnrolCallStep /\ last_enrollment_time # ZeroTime) =>
          enrol_sent' - enrol_sent =
             IF now - last_enrollment_time >= EnrolCooldown THEN 1 ELSE 0]_vars

\* C8 amended: a call 10 minutes later or less dispatches nothing, a call
\* more than 10 minutes later dispatches one.
C8_CooldownStrict ==
    [][(EnrolCallStep /\ last_enrollment_time # ZeroTime) =>
          enrol_sent' - enrol_sent =
             IF now - last_enrollment_time > EnrolCooldown THEN 1 ELSE 0]_vars

\* a call at 0 s dispatched, a call at 600 s did not, a call at 901 s did
C8_Witness ==
    /\ enrol_sent = 2
    /\ last_enrollment_time = 901
    /\ now = 901

\* the idle run of scenario B: minPoll 1 s, maxPoll 4 s, nothing to send,
\* every exchange succeeds, the server has no jobs
ScenarioB ==
    /\ minPoll = 1 /\ maxPoll = 4
    /\ up = {0}
    /\ enqueued = 0
    /\ processed = <<>>

\* Check takes the branch of lines 98-107
PingStep == pc = "check" /\ pc' = "send"

\* C9 as stated: the first ping is sent one minPoll after the start and each
\* later ping follows the previous one by the interval then in force
\* (1, 3, 7, 11, 15).
C9_Original ==
    [][(ScenarioB /\ PingStep) =>
          IF last_ping_time = ZeroTime THEN now = minPoll
          ELSE now - last_ping_time = current_poll_duration]_vars

\* C9 amended: the first ping is sent at 0 s, in the first turn of the loop,
\* and sets the interval to 2 s; each later ping is sent at the first tick
\* that is more than the interval in force after the previous ping, within
\* one minPoll and one exchange of it, and doubles the interval up to 4 s.
C9_PingSchedule ==
    [][(ScenarioB /\ PingStep) =>
          /\ current_poll_duration' = Min(2 * current_poll_duration, 4)
          /\ IF last_ping_time = ZeroTime
             THEN now = 0 /\ current_poll_duration = 1
             ELSE /\ now - last_ping_time > current_poll_duration
                  /\ now - last_ping_time <=
                        current_poll_duration + minPoll + MaxLatency]_vars

\* the third ping of the idle run, at 8 s
C9_Witness ==
    /\ ScenarioB
    /\ pc = "send" /\ site = "ping"
    /\ now = 8
    /\ current_poll_duration = 4

\* C10: a step that brings no jobs changes the poll interval only when it
\* starts an unsolicited ping, and then from p to min(2p, maxPoll).
C10_OnlyPingsDouble ==
    [][(processed' = processed) =>
          current_poll_duration' =
             IF PingStep THEN Min(2 * current_poll_duration, maxPoll)
             ELSE current_poll_duration]_vars

\* a solicited send has failed in a run without jobs whose interval is maxPoll
C10_Witness ==
    /\ processed = <<>>
    /\ pc = "wait" /\ site = "drain"
    /\ current_poll_duration = maxPoll

\* C11: a wait that times out moves the cursor to the next url with an empty
\* server_name; an attempt at a url that never fails returns at once, leaving
\* the cursor where it is and server_name the name of that url's certificate;
\* nothing but a timed-out wait moves the cursor or clears server_name, so
\* both persist from one call of sendMessageList to the next, and once the
\* cursor is on the url that never fails no other url is attempted again.
C11_StickyFailover ==
    [][/\ (pc = "wait" /\ pc' = "send") =>
             /\ current_url_idx' = (current_url_idx + 1) % NumUrls
             /\ server_name' = EmptyName
       /\ (pc = "send" /\ pc' # "send" /\ current_url_idx \in up) =>
             /\ ~InSend'
             /\ now' - now <= MaxLatency
             /\ server_name' = CertName(current_url_idx)
       /\ ~(pc = "wait" /\ pc' = "send") =>
             /\ current_url_idx' = current_url_idx
             /\ server_name' \in {server_name, CertName(current_url_idx)}
       /\ current_url_idx \in up => current_url_idx' = current_url_idx]_vars

\* only the last url never fails; an earlier call failed its way to it and
\* succeeded there, and a later call starts with the cursor and the name of
\* that url
C11_Witness ==
    /\ NumUrls > 1
    /\ up = {NumUrls - 1}
    /\ pc = "send"
    /\ rotations = 0
    /\ current_url_idx = NumUrls - 1
    /\ server_name = CertName(NumUrls - 1)

\* sendToURL returns from a POST the server answered with status 406
Got406 == pc = "send" /\ pc' # "send" /\ ~known /\ lastOutcome' \notin Failures

\* C12: a 406 answer ends sendMessageList at once as a success: MaybeEnrol
\* ran once (one request dispatched when it was due and the CSR could be
\* built, none otherwise), there is no wait, server_name stays the name of
\* the url, the cursor stays, no job is dispatched and the poll interval is
\* kept, the batch is not passed on again and the live list is replaced by
\* an empty one as the lock is released.
C12_Status406IsSuccess ==
    [][Got406 =>
          /\ ~InSend'
          /\ csr_result' # "none"
          /\ (csr_result' = "skipped") <=> ~EnrolDue(now', last_enrollment_time)
          /\ enrol_sent' - enrol_sent = IF csr_result' = "ok" THEN 1 ELSE 0
          /\ csr_result' = "ok" => last_enrollment_time' = now'
          /\ csr_result' # "ok" => last_enrollment_time' = last_enrollment_time
          /\ now' - now <= MaxLatency
          /\ server_name' = CertName(current_url_idx)
          /\ current_url_idx' = current_url_idx
          /\ processed' = processed
          /\ current_poll_duration' = current_poll_duration
          /\ handed' = handed
          /\ pending_message_list' = <<>>
          /\ mutex' = "free"]_vars

\* the first attempt of the first non-empty batch was answered 406: one
\* enrolment request went out, the batch is gone, no job was dispatched
C12_Witness ==
    /\ ~known
    /\ pc = "check"
    /\ handed = <<(<<1>>)>>
    /\ pending_message_list = <<>>
    /\ enrol_sent = 1
    /\ csr_result = "ok"
    /\ last_enrollment_time = now
    /\ current_url_idx = 0
    /\ server_name = CertName(0)
    /\ processed = <<>>

\* sendToURL returns an error from the handshake of lines 156-178
HandshakeFails == pc = "send" /\ pc' = "wait" /\ lastOutcome' \in HandshakeFailures

\* C13: an attempt whose handshake fails started with an empty server_name
\* and leaves it empty, reaches neither EncryptMessageList nor client.Post and
\* changes nothing a server's answer could change; the wait that follows ends
\* at once by cancellation, or after maxPoll with the cursor on the next url
\* and server_name still empty, and the next attempt that gets past the
\* handshake holds the name of that url's certificate.
C13_HandshakeFailure ==
    [][/\ HandshakeFails =>
             /\ server_name = EmptyName
             /\ server_name' = EmptyName
             /\ ~ReachesEncrypt(lastOutcome')
             /\ ~ReachesPost(lastOutcome')
             /\ UNCHANGED <<processed, enrol_sent, csr_result,
                            last_enrollment_time, current_poll_duration,
                            current_url_idx, pending_message_list, mutex>>
       /\ (pc = "wait" /\ lastOutcome \in HandshakeFailures /\ pc' # "wait") =>
             IF cancelled
             THEN ~InSend' /\ now' = now /\ current_url_idx' = current_url_idx
             ELSE /\ pc' = "send"
                  /\ now' = now + maxPoll
                  /\ current_url_idx' = (current_url_idx + 1) % NumUrls
                  /\ server_name' = EmptyName
       /\ (pc = "send" /\ server_name = EmptyName /\ pc' # "send"
              /\ ReachesEncrypt(lastOutcome')) =>
             server_name' = CertName(current_url_idx)]_vars

\* after one rotation the handshake with the second url was tried and the
\* GET of its server.pem failed
C13_Witness ==
    /\ pc = "wait"
    /\ lastOutcome = "get_err"
    /\ rotations = 1
    /\ current_url_idx = 1
    /\ server_name = EmptyName
    /\ now >= maxPoll

\* sendToURL returns nil from line 232: status 200 and a decrypted reply
Got200 == pc = "send" /\ ~InSend' /\ known

\* C14: the server numbers its jobs in the order it hands them out; the jobs
\* passed to ProcessRequest are always 1, 2, ... each once and in that order,
\* a step passes jobs on only when it is an exchange answered 200 whose reply
\* was decrypted, and then it appends the whole reply in the order of the
\* reply; a failed attempt and a 406 answer pass nothing on.
C14_DispatchInOrder ==
    /\ [](processed = Iota(Len(processed)))
    /\ [][/\ processed' # processed => Got200
          /\ Got200 =>
                \E n \in 0 .. MaxJobs :
                   processed' = processed \o [k \in 1 .. n |-> Len(processed) + k]
          /\ (pc = "send" /\ pc' = "wait") => processed' = processed
          /\ Got406 => processed' = processed]_vars

\* the only exchange so far, the ping of the first turn, was answered with a
\* reply of two jobs
C14_Witness ==
    /\ processed = <<1, 2>>
    /\ now = 0
    /\ handed = <<>>
    /\ pc = "sleep"
    /\ gotWork
    /\ current_poll_duration = minPoll

\* C15 as stated: once a select of the poll loop (the sleep of Run or the wait
\* of sendMessageList) has received the cancellation, no sendToURL is started
\* again.
C15_Original == [](done_seen => pc # "send")

\* What holds of C15: a cancellation received by the sleep of Run stops the
\* loop in that step, and one received by the wait of an unsolicited ping
\* leads to the sleep with nothing sent; only after one received by the wait
\* of the send of a non-empty list does Run go on to line 96, where it may
\* start an unsolicited ping.
C15_NoSendAfterSleepOrPing ==
    /\ [](pc = "stopped" => done_seen /\ mutex = "free")
    /\ [][/\ (pc = "sleep" /\ ~done_seen /\ done_seen') => pc' = "stopped"
          /\ (pc = "wait" /\ site = "ping" /\ ~done_seen /\ done_seen') =>
                pc' = "sleep"
          /\ (pc = "sleep" /\ done_seen /\ pc' # "sleep") => pc' = "stopped"
          /\ (done_seen /\ pc # "send" /\ pc' = "send") =>
                pc = "check" /\ site' = "ping"]_vars

\* the wait of the send of a non-empty list received the cancellation, and
\* an unsolicited ping was started after it
C15_Witness ==
    /\ done_seen
    /\ pc = "send"
    /\ site = "ping"
    /\ handed # <<>>

\* C16 as stated: a turn of the poll loop that sent a non-empty list starts
\* no unsolicited ping.
C16_Original == [][(pc = "check" /\ drained) => pc' # "send"]_vars

\* What holds of C16: a turn starts at most the send of the list and one
\* ping, and after the send of a non-empty list it starts the ping exactly
\* when that send, from its start, took longer than the poll interval.
C16_PingAfterSlowSend ==
    /\ [](drained => pc \in {"send", "wait", "check"})
    /\ [][/\ (pc = "check" /\ pc' # "check" /\ drained) =>
                (pc' = "send" <=> now - last_ping_time > current_poll_duration)
          /\ (pc = "check" /\ pc' # "check") =>
                IF pc' = "send" THEN site' = "ping" ELSE pc' = "sleep"
          /\ (site = "ping" /\ ~InSend') => pc' = "sleep"]_vars

\* the send of a non-empty list took longer than the poll interval without
\* any cancellation, and line 96 finds a ping due in the same turn
C16_Witness ==
    /\ pc = "check"
    /\ drained
    /\ ~cancelled
    /\ PingDue(now, last_ping_time, current_poll_duration)

\* C17: from the entry of sendMessageList until Run has replaced the list and
\* unlocked, the poll loop holds the mutex, intake appends nothing and the
\* live list does not change; the list is replaced by an empty one in the
\* step that releases the mutex, and intake appends only while it is free.
C17_Backpressure ==
    /\ [](InSend <=> mutex = "sched")
    /\ [][/\ InSend => enqueued' = enqueued
          /\ (InSend /\ InSend') => pending_message_list' = pending_message_list
          /\ (InSend /\ ~InSend') =>
                pending_message_list' = <<>> /\ mutex' = "free"
          /\ (enqueued' # enqueued) =>
                /\ mutex = "free"
                /\ pending_message_list' =
                      Append(pending_message_list, enqueued')]_vars

\* the send of a non-empty list is in its second wait while intake has a
\* message left to append
C17_Witness ==
    /\ pc = "wait"
    /\ rotations = 1
    /\ mutex = "sched"
    /\ pending_message_list = <<1>>
    /\ enqueued = 1
    /\ MaxMsgs > 1

\* sendToURL returns the error of DecryptMessageList, line 218
DecryptFails == pc = "send" /\ pc' = "wait" /\ lastOutcome' = "decrypt_err"

\* C18: an attempt that ends in a decryption error has posted the batch, it
\* dispatches no job and leaves the poll interval alone, and it is a failed
\* attempt: unless cancelled, sendMessageList waits maxPoll, clears
\* server_name, advances the cursor and goes on to send the same batch, which
\* is then posted once more.
C18_DecryptFailureResends ==
    [][/\ DecryptFails =>
             /\ ReachesPost(lastOutcome')
             /\ posts' = posts + 1
             /\ processed' = processed
             /\ gotWork' = gotWork
             /\ current_poll_duration' = current_poll_duration
             /\ server_name' = CertName(current_url_idx)
             /\ UNCHANGED <<pending_message_list, handed, current_url_idx>>
       /\ (pc = "wait" /\ lastOutcome = "decrypt_err" /\ ~cancelled
              /\ pc' # "wait") =>
             /\ pc' = "send"
             /\ now' = now + maxPoll
             /\ server_name' = EmptyName
             /\ current_url_idx' = (current_url_idx + 1) % NumUrls
             /\ UNCHANGED <<pending_message_list, handed, posts>>
       /\ (pc = "send" /\ posts > 0 /\ pc' = "wait"
              /\ ReachesPost(lastOutcome')) =>
             posts' > 1 /\ UNCHANGED <<pending_message_list, handed>>]_vars

\* the one batch was posted at the first url and at the second, and the
\* second answer could not be decrypted either
C18_Witness ==
    /\ pc = "wait"
    /\ lastOutcome = "decrypt_err"
    /\ posts = 2
    /\ rotations = 1
    /\ handed = <<(<<1>>)>>
    /\ pending_message_list = <<1>>
    /\ processed = <<>>

\* C19: a call of MaybeEnrol inside the cool-down changes nothing; a call
\* that is due but cannot get or serialize the CSR dispatches nothing and
\* leaves last_enrollment_time alone; last_enrollment_time changes only in a
\* call that dispatches a request, to the time of that call, so it is the
\* time of the last dispatch and the zero time before the first.
C19_FailedEnrolKeepsClock ==
    /\ [](enrol_sent = 0 <=> last_enrollment_time = ZeroTime)
    /\ [][/\ (now' = now /\ ~EnrolDue(now, last_enrollment_time)) =>
                /\ csr_result' = "skipped"
                /\ UNCHANGED <<last_enrollment_time, enrol_sent, server_name,
                               current_poll_duration, processed,
                               pending_message_list, current_url_idx>>
          /\ (now' = now /\ EnrolDue(now, last_enrollment_time)) =>
                /\ csr_result' \in CsrOutcomes
                /\ csr_result' # "ok" =>
                      UNCHANGED <<last_enrollment_time, enrol_sent>>
                /\ csr_result' = "ok" =>
                      /\ last_enrollment_time' = now
                      /\ enrol_sent' = enrol_sent + 1
          /\ (last_enrollment_time' # last_enrollment_time) =>
                /\ enrol_sent' = enrol_sent + 1
                /\ last_enrollment_time' = now]_vars

\* a request was dispatched at 0 s; the call at 601 s was due and GetCSR
\* failed: the clock still reads 0 s
C19_Witness ==
    /\ csr_result = "csr_err"
    /\ enrol_sent = 1
    /\ last_enrollment_time = 0
    /\ now = 601

\* C20: the poll loop is stopped only after a select received the
\* cancellation, and then the mutex is free; once the context is cancelled,
\* wherever the loop is (before the lock, in an exchange, in the wait of
\* sendMessageList, at line 96 or in the sleep), it reaches the stopped state
\* with the mutex free, given that every exchange returns.
C20_StopsOnCancel ==
    /\ [](pc = "stopped" => cancelled /\ mutex = "free" /\ site = "none")
    /\ cancelled ~> (pc = "stopped" /\ mutex = "free")

\* the first ping failed and the cancellation arrived 3 s into the wait of
\* sendMessageList, which returned; the sleep of Run then stopped the loop
C20_Witness ==
    /\ pc = "stopped"
    /\ mutex = "free"
    /\ enqueued = 0
    /\ last_ping_time = 0
    /\ now = 3

=============================================================================
